---------------------------- MODULE Spec2Model ----------------------------
(***************************************************************************)
(* Model of the allinone-converter request pipelines:                      *)
(*   - the transcription route, in its two revisions                       *)
(*       "t0" = src/unnamed/part_000  (shape-probing error handling)       *)
(*       "t1" = src/unnamed/part_001  lines 1-208 (earlier revision)       *)
(*   - the document-conversion route, in its two revisions                 *)
(*       "c0" = src/src/app/api/convert-document/route.ts                  *)
(*       "c1" = src/unnamed/part_001  lines 209-414                        *)
(* Every await of a handler is a step of its own; the synchronous code     *)
(* between two awaits belongs to the step that the first await resumes.    *)
(*                                                                         *)
(* JavaScript values are records tagged by t (the typeof of the value);    *)
(* strings are sequences of tokens so that template-string concatenation   *)
(* is \o and "contains" is decidable.  File-system paths are sequences of  *)
(* segments, a segment being a sequence of tokens.                         *)
(***************************************************************************)
EXTENDS Integers, Sequences, FiniteSets, TLC

VARIABLES
    env,      \* process.env: which API keys are configured
    dirs,     \* the directories that exist
    files,    \* the files that exist: path -> content
    st,       \* per request: the handler's position, locals and response
    workload  \* which requests arrive (fixed by Init)

vars == <<env, dirs, files, st, workload>>

-----------------------------------------------------------------------------
(* Bounds *)

NumReqs == 2
MaxFormats == 2

Reqs == 1 .. NumReqs

-----------------------------------------------------------------------------
(* JavaScript values *)

Absent == [t |-> "absent"]          \* the property is not in the object
Undef  == [t |-> "undefined"]
Null   == [t |-> "null"]
Str(s) == [t |-> "string", v |-> s]
Num(n) == [t |-> "number", n |-> n]

IsStr(x) == x.t = "string"
IsObj(x) == x.t = "object"          \* typeof x === 'object' && x !== null

\* JavaScript truthiness (ToBoolean)
Truthy(x) ==
    CASE x.t = "string" -> x.v # <<>>
      [] x.t = "number" -> x.n # 0
      [] x.t = "object" -> TRUE
      [] OTHER -> FALSE

\* 'p' in x, for an object x
Has(x, p) == IsObj(x) /\ p \in DOMAIN x /\ x[p] # Absent

\* x.p, undefined when the property is missing
Get(x, p) == IF Has(x, p) THEN x[p] ELSE Undef

\* A thrown value.  isError: instanceof Error.
Thrown(isError, message, response, error, details) ==
    [t |-> "object", isError |-> isError, message |-> message,
     response |-> response, error |-> error, details |-> details]

\* new Error(msg)
NewError(msg) == Thrown(TRUE, Str(msg), Absent, Absent, Absent)

\* error instanceof Error
InstanceOfError(e) == IsObj(e) /\ "isError" \in DOMAIN e /\ e.isError

\* error.message as the template string `${error.message}` renders it
MessageOf(e) == IF Has(e, "message") /\ IsStr(e.message) THEN e.message.v ELSE <<"undefined">>

Payload == Str(<<"provider payload">>)

\* The shapes a collaborator (framework, file system, provider SDK) may throw.
ThrownShapes ==
    { NewError(<<"boom">>),
      Thrown(TRUE, Str(<<"boom">>), [t |-> "object", data |-> Payload], Absent, Absent),
      Thrown(TRUE, Str(<<"boom">>), [t |-> "object", data |-> Absent], Absent, Absent),
      Thrown(TRUE, Str(<<"boom">>), Absent, Payload, Absent),
      Thrown(FALSE, Str(<<"boom">>), Absent, Absent, Payload),
      Thrown(FALSE, Absent, Absent, Absent, Absent),
      Str(<<"thrown string">>) }

-----------------------------------------------------------------------------
(* Paths and the file system *)

TmpDir == << <<"tmp">> >>            \* os.tmpdir()
NoPath == << >>                      \* null / not yet assigned

\* path.normalize: a ".." segment removes the segment before it
RECURSIVE Normalize(_, _)
Normalize(done, rest) ==
    IF rest = << >> THEN done
    ELSE IF Head(rest) = <<"..">>
         THEN Normalize(IF done = << >> THEN done ELSE SubSeq(done, 1, Len(done) - 1),
                        Tail(rest))
         ELSE Normalize(Append(done, Head(rest)), Tail(rest))

\* path.join(dir, name): name is split at its separators and the result normalized
PathJoin(dir, name) == Normalize(<< >>, dir \o name)

\* path.dirname
Dirname(p) == SubSeq(p, 1, Len(p) - 1)

\* path.parse(p).name: the last segment without its extension
ParseName(p) ==
    LET base == p[Len(p)]
    IN  IF Len(base) > 1 THEN SubSeq(base, 1, Len(base) - 1) ELSE base

IsPrefix(d, p) == Len(d) <= Len(p) /\ SubSeq(p, 1, Len(d)) = d

\* p lies inside directory d (strictly below it)
Inside(p, d) == Len(d) < Len(p) /\ IsPrefix(d, p)

\* The random part of a mkdtemp name, and of a generated file name
\* (Date.now() + "_" + Math.random()...).
DirSuffixes == {"a", "b"}
UniqueSuffixes == {"u1"}

\* fs.mkdtemp(path.join(os.tmpdir(), prefix)): the names it may create
MkdtempNames(prefix) ==
    { PathJoin(TmpDir, << <<prefix, x>> >>) : x \in DirSuffixes } \ dirs

\* fs.rm(dir, { recursive: true, force: true }) when it succeeds
RmDirs(dir) == { d \in dirs : ~IsPrefix(dir, d) }
RmFiles(dir) ==
    LET keep == { p \in DOMAIN files : ~IsPrefix(dir, p) }
    IN  [p \in keep |-> files[p]]

\* fs.writeFile(path, bytes) when it succeeds
PutFile(p, content) == [q \in (DOMAIN files) \cup {p} |-> IF q = p THEN content ELSE files[q]]

\* A write can succeed only where the parent directory exists and the
\* path is not a directory itself.
Writable(p) == p # << >> /\ Dirname(p) \in dirs /\ p \notin dirs

-----------------------------------------------------------------------------
(* Remote media formats: ytdl-core's chooseFormat *)

AudioBitrates == {64, 128}

FormatShapes ==
    { f \in [hasVideo : BOOLEAN, hasAudio : BOOLEAN, hasUrl : BOOLEAN,
             audioBitrate : AudioBitrates] : f.hasVideo \/ f.hasAudio }

FormatLists == UNION { [1 .. n -> FormatShapes] : n \in 0 .. MaxFormats }

NoFormat == [none |-> TRUE]

AudioOnly(f) == ~f.hasVideo /\ f.hasAudio
HasAudio(f) == f.hasAudio
HasUrl(f) == f.hasUrl

\* ytdl-core filterFormats(formats, filter):
\*   formats.filter(f => !!f.url && fn(f)),
\* fn being the named filter 'audioonly' (!hasVideo && hasAudio) or the
\* caller's function (f => f.hasAudio).
FilterFormats(formats, filter) ==
    LET withUrl == SelectSeq(formats, HasUrl)
    IN  IF filter = "audioonly" THEN SelectSeq(withUrl, AudioOnly)
        ELSE SelectSeq(withUrl, HasAudio)

\* quality 'highestaudio': keep the formats with audio, sort them (stably) by
\* audio quality, take the first: the first format of the highest bitrate.
HighestAudio(formats) ==
    LET withAudio == SelectSeq(formats, HasAudio)
        best == CHOOSE i \in 1 .. Len(withAudio) :
                    /\ \A j \in 1 .. Len(withAudio) :
                           withAudio[j].audioBitrate <= withAudio[i].audioBitrate
                    /\ \A j \in 1 .. (i - 1) :
                           withAudio[j].audioBitrate < withAudio[i].audioBitrate
    IN  IF withAudio = << >> THEN NoFormat ELSE withAudio[best]

\* quality 'highest': formats[0] (getInfo lists the formats best first)
Highest(formats) == IF formats = << >> THEN NoFormat ELSE formats[1]

\* ytdl.chooseFormat(formats, {quality, filter}) as ytdl-core 4.x defines it:
\* filter, pick by quality, and
\*   if (!format) throw Error(`No such format found: ${quality}`);
\* so the call yields a format or throws; it never returns undefined.
\* [threw, format, error]
ChooseFormat(formats, quality, filter) ==
    LET left == FilterFormats(formats, filter)
        format == IF quality = "highestaudio" THEN HighestAudio(left) ELSE Highest(left)
    IN  IF format = NoFormat
        THEN [threw |-> TRUE, format |-> NoFormat,
              error |-> NewError(<<"No such format found: ", quality>>)]
        ELSE [threw |-> FALSE, format |-> format, error |-> Absent]

\* !format || !format.url
Unusable(format) == format = NoFormat \/ ~format.hasUrl

\* Lines 133-140 of downloadYouTubeVideoAndExtractAudio: the format chosen,
\* or the error the selection ends with.  A throw of chooseFormat is not
\* caught there: it leaves the function.  [ok, format, error]
SelectFormat(formats) ==
    LET first == ChooseFormat(formats, "highestaudio", "audioonly")
    IN  IF first.threw
        THEN [ok |-> FALSE, format |-> NoFormat, error |-> first.error]
        ELSE IF ~Unusable(first.format)
        THEN [ok |-> TRUE, format |-> first.format, error |-> Absent]
        ELSE LET second == ChooseFormat(formats, "highest", "hasAudio")
             IN  IF second.threw
                 THEN [ok |-> FALSE, format |-> NoFormat, error |-> second.error]
                 ELSE IF ~Unusable(second.format)
                 THEN [ok |-> TRUE, format |-> second.format, error |-> Absent]
                 ELSE [ok |-> FALSE, format |-> NoFormat,
                       error |-> NewError(<<"Could not find a suitable video/audio format to download from YouTube.">>)]

-----------------------------------------------------------------------------
(* Requests and responses *)

\* A File of the form data: its name (as path segments) and its bytes
FileObj(name, owner) ==
    [t |-> "object", name |-> name, bytes |-> [owner |-> owner, kind |-> "upload"]]

ClipName  == << <<"clip", ".mp4">> >>                  \* "clip.mp4"
EscapeName == << <<"..">>, <<"clip", ".mp4">> >>       \* "../clip.mp4"
UploadNames == {ClipName, EscapeName}

BadUrl  == Str(<<"not-a-url">>)
GoodUrl == Str(<<"https://youtu.be/x">>)

\* Mutant: any non-empty string passes validation
ValidateURLAnyString(url) == Truthy(url)

\* ytdl.validateURL: a pure parse of the string, no network
ValidateURL(url) == url = GoodUrl

BlankBody ==
    [malformed |-> FALSE, operationType |-> Null, video |-> Null, videoUrl |-> Null,
     document |-> Null, targetFormat |-> Null, inputFileName |-> Null]

NoBody == [BlankBody EXCEPT !.malformed = TRUE]

\* The form data of a file upload
UploadBodies(r, names) ==
    { [BlankBody EXCEPT !.operationType = Str(<<"file">>), !.video = FileObj(n, r)] :
          n \in names }

\* The form data a transcription request may carry (fields the chosen branch
\* never reads are left out)
TranscribeBodies(r, names) ==
    {NoBody}
    \cup { [BlankBody EXCEPT !.operationType = op] : op \in {Null, Str(<<"other">>)} }
    \cup { [BlankBody EXCEPT !.operationType = Str(<<"file">>)] }
    \cup UploadBodies(r, names)
    \cup { [BlankBody EXCEPT !.operationType = Str(<<"url">>), !.videoUrl = u] :
              u \in {Null, Str(<< >>), BadUrl, GoodUrl} }

BlankResp ==
    [status |-> 0, unhandled |-> FALSE, error |-> Absent, details |-> Absent,
     transcription |-> Absent, videoTitle |-> Absent, originalFileName |-> Absent,
     contentType |-> Absent, contentDisposition |-> Absent, bytes |-> Absent]

NoResp == BlankResp

\* JSON.stringify leaves out a property whose value is undefined
JsonField(x) == IF x = Undef THEN Absent ELSE x

\* NextResponse.json({ error: msg }, { status: 400 })
Json400(msg) == [BlankResp EXCEPT !.status = 400, !.error = Str(msg)]

\* NextResponse.json({ error, details }, { status: 500 })
Json500(msg, details) ==
    [BlankResp EXCEPT !.status = 500, !.error = Str(msg), !.details = details]

\* The handler's promise rejects: the framework answers 500 on its own
Unhandled == [BlankResp EXCEPT !.status = 500, !.unhandled = TRUE]

InitReq ==
    [route |-> "none", pc |-> "idle", body |-> NoBody,
     tempSessionDir |-> NoPath, videoPath |-> NoPath, audioOutputPath |-> NoPath,
     audioToTranscribePath |-> NoPath,
     videoTitleFromUrl |-> Undef, originalFileNameForDisplay |-> Undef,
     formats |-> << >>, format |-> NoFormat, selected |-> FALSE,
     job |-> Null, tempDir |-> NoPath, tempFilePath |-> NoPath,
     convertedFileName |-> << >>,
     pending |-> NoResp, resp |-> NoResp,
     transcription |-> Undef,
     calls |-> << >>, ended |-> << >>, failed |-> << >>, log |-> << >>,
     thrown |-> Undef,
     caught |-> Undef, writing |-> FALSE, downloaded |-> Absent,
     created |-> {}, written |-> {}, readFrom |-> {}, rmFailed |-> FALSE]

Called(s, op) == \E i \in 1 .. Len(s.calls) : s.calls[i] = op
Count(s, op) == Cardinality({ i \in 1 .. Len(s.calls) : s.calls[i] = op })

-----------------------------------------------------------------------------
(* Error normalization at the boundary of the transcription route *)

\* part_000 lines 229-236 / part_001 lines 189-195
TranscribeMessage(e) ==
    IF InstanceOfError(e) THEN e.message.v
    ELSE <<"An unknown error occurred during transcription processing.">>

\* part_000 lines 232-255
TranscribeDetails0(e) ==
    IF ~IsObj(e) THEN Null
    ELSE IF Has(e, "response")
         THEN IF IsObj(e.response) /\ Has(e.response, "data")
              THEN e.response.data ELSE e.response
    ELSE IF Has(e, "error") THEN e.error
    ELSE IF InstanceOfError(e) THEN Null
    ELSE e

\* part_000 lines 227-259: the catch of POST
TranscribeCatch0(e) == Json500(TranscribeMessage(e), TranscribeDetails0(e))

\* part_001 lines 187-196: the catch of POST, details always null
TranscribeCatch1(e) == Json500(TranscribeMessage(e), Null)

TranscribeCatch(route, e) ==
    IF route = "t0" THEN TranscribeCatch0(e) ELSE TranscribeCatch1(e)

-----------------------------------------------------------------------------
(* transcribeWithWhisper *)

TextVals == {Absent, Null, Str(<< >>), Str(<<"hello">>), Num(0), Num(42)}
DataVals == {Absent, Null,
             [t |-> "object", text |-> Str(<<"nested">>)],
             [t |-> "object", text |-> Num(7)]}

\* Every shape of the provider's response object
WhisperResponses ==
    {Null} \cup { [t |-> "object", text |-> x, data |-> d] : x \in TextVals, d \in DataVals }

NullDeref == NewError(<<"Cannot read properties of null (reading 'text')">>)

\* part_000 lines 67-95: [ok, value, error]
WhisperText0(transcription) ==
    IF ~IsObj(transcription) THEN [ok |-> FALSE, value |-> Undef, error |-> NullDeref]
    ELSE
    LET text == Get(transcription, "text")
        dataProp == Get(transcription, "data")
        extractedText ==
            IF Has(transcription, "text") /\ IsStr(transcription.text)
            THEN transcription.text
            ELSE IF Has(transcription, "data")
                    /\ IsObj(dataProp) /\ Has(dataProp, "text") /\ IsStr(dataProp.text)
            THEN dataProp.text
            ELSE Undef
    IN  IF IsStr(text) THEN [ok |-> TRUE, value |-> text, error |-> Absent]
        ELSE IF extractedText # Undef
        THEN [ok |-> TRUE, value |-> extractedText, error |-> Absent]
        ELSE [ok |-> FALSE, value |-> Undef,
              error |-> NewError(<<"Could not extract text from Whisper API response: 'text' field missing, not a string, or structure unexpected.">>)]

\* part_001 lines 70-77: [ok, value, error]
WhisperText1(transcription) ==
    IF ~IsObj(transcription) THEN [ok |-> FALSE, value |-> Undef, error |-> NullDeref]
    ELSE
    LET text == Get(transcription, "text")
        data == Get(transcription, "data")
        \* (transcription as any).data?.text
        dataText == IF IsObj(data) THEN Get(data, "text") ELSE Undef
        \* a || b
        possibleText == IF Truthy(text) THEN text ELSE dataText
    IN  IF IsStr(text) THEN [ok |-> TRUE, value |-> text, error |-> Absent]
        ELSE IF Truthy(possibleText)
        THEN [ok |-> TRUE, value |-> possibleText, error |-> Absent]
        ELSE [ok |-> FALSE, value |-> Undef,
              error |-> NewError(<<"Could not extract text from Whisper API response.">>)]

\* Mutant: the text is tested for truthiness (if (transcription.text)),
\* not for being a string
WhisperTextTruthy(route, transcription) ==
    IF ~IsObj(transcription) THEN [ok |-> FALSE, value |-> Undef, error |-> NullDeref]
    ELSE IF Truthy(Get(transcription, "text"))
    THEN [ok |-> TRUE, value |-> transcription.text, error |-> Absent]
    ELSE [ok |-> FALSE, value |-> Undef,
          error |-> NewError(<<"Could not extract text from Whisper API response.">>)]

WhisperText(route, transcription) ==
    IF route = "t0" THEN WhisperText0(transcription) ELSE WhisperText1(transcription)

\* part_000 lines 97-122: the catch of transcribeWithWhisper
WhisperCatch0(e) ==
    NewError(<<"Whisper API transcription failed: ">>
             \o (IF InstanceOfError(e) THEN e.message.v ELSE <<"Unknown Whisper API error">>))

\* part_001 lines 79-82: `${error.message}`
WhisperCatch1(e) == NewError(<<"Whisper API transcription failed: ">> \o MessageOf(e))

WhisperCatch(route, e) == IF route = "t0" THEN WhisperCatch0(e) ELSE WhisperCatch1(e)

-----------------------------------------------------------------------------
(* The transcription route: POST of part_000 ("t0") and part_001 ("t1") *)

TranscribeRoutes == {"t0", "t1"}

\* The collaborators' failures
FormDataErrors == {NewError(<<"Failed to parse body as FormData.">>)}
FsErrors == {NewError(<<"ENOSPC: no space left on device">>)}
FfmpegDiagnostics == {<<"ffmpeg exited with code 1">>}
StreamErrors == {<<"socket hang up">>}

Titles == { <<"My", " ", "Talk", "/", "2">> }
UnsafeChars == {"<", ">", ":", "\"", "/", "\\", "|", "?", "*"}
TitleCap == 100

SafeChar(c) == c \notin UnsafeChars

\* title.replace(/[<>:"/\\|?*]+/g, '').substring(0, 100)
SanitizeTitle(title) ==
    LET kept == SelectSeq(title, SafeChar)
    IN  SubSeq(kept, 1, IF Len(kept) < TitleCap THEN Len(kept) ELSE TitleCap)

\* videoTitle.replace(/\s/g, '_')
Underscored(title) == [i \in 1 .. Len(title) |-> IF title[i] = " " THEN "_" ELSE title[i]]

\* part_000 lines 142-144
DownloadedVideoPath(outputDir, videoTitle, uniqueSuffix) ==
    PathJoin(outputDir,
             << <<"youtube_">> \o Underscored(videoTitle) \o <<"_", uniqueSuffix, ".mp4">> >>)

\* part_000 lines 29-31
AudioOutputPath(videoPath, outputDir, uniqueSuffix) ==
    PathJoin(outputDir, << ParseName(videoPath) \o <<"_", uniqueSuffix, "_audio", ".mp3">> >>)

\* Mutant: the 400 returns leave the handler without passing the finally block
ToFinallyUnless400(s, response) ==
    IF response.status = 400 THEN [s EXCEPT !.pc = "done", !.resp = response]
    ELSE [s EXCEPT !.pc = "finally", !.pending = response]

\* return <response> inside the try, or the catch's return: the response waits
\* for the finally block
ToFinally(s, response) == [s EXCEPT !.pc = "finally", !.pending = response]

\* a throw inside the try of POST
TThrow(s, e) == ToFinally([s EXCEPT !.caught = e], TranscribeCatch(s.route, e))

Invoke(s, op) ==
    [s EXCEPT !.calls = Append(@, op), !.log = Append(@, <<"call", op>>)]

\* The awaited operation resolved
Settle(s, op) ==
    [s EXCEPT !.ended = Append(@, op), !.log = Append(@, <<"end", op>>)]

\* The operation rejected with e, or its result was refused with e
Fail(s, op, e) ==
    [s EXCEPT !.failed = Append(@, op), !.log = Append(@, <<"fail", op>>),
              !.thrown = e]

Ended(s, op) == \E i \in 1 .. Len(s.ended) : s.ended[i] = op

\* extractAudio(videoPath, outputDir) up to the start of the transcoder
StartExtract(s, u) ==
    [Invoke(s, "ffmpeg") EXCEPT
        !.pc = "ffmpeg",
        !.audioOutputPath = AudioOutputPath(s.videoPath, s.tempSessionDir, u)]

\* The request arrives and POST creates its session directory (line 174,
\* before the try: a failure of mkdtemp leaves the handler).
TArrive(r) ==
    /\ st[r].pc = "idle"
    /\ r \in workload.reqs
    /\ \E route \in workload.routes \cap TranscribeRoutes,
          body \in (IF workload.uploadsOnly THEN UploadBodies(r, workload.names)
                     ELSE TranscribeBodies(r, workload.names)) :
         LET s == [Invoke(st[r], "mkdtemp") EXCEPT !.route = route, !.body = body]
         IN  \/ \E d \in MkdtempNames("transcribe-session-") :
                  /\ dirs' = dirs \cup {d}
                  /\ st' = [st EXCEPT ![r] =
                              [Settle(s, "mkdtemp") EXCEPT
                                  !.pc = "formData", !.tempSessionDir = d,
                                  !.created = @ \cup {d}]]
             \/ /\ dirs' = dirs
                /\ \E e \in FsErrors :
                     st' = [st EXCEPT ![r] =
                              [Fail(s, "mkdtemp", e) EXCEPT !.pc = "done", !.resp = Unhandled]]
    /\ UNCHANGED <<env, files, workload>>

\* await req.formData() and the branch on operationType (lines 180-212),
\* up to the next await
TParseForm(r) ==
    LET s == st[r]
        b == s.body
        name == b.video.name
    IN
    /\ s.pc = "formData"
    /\ s.route \in TranscribeRoutes
    /\ IF b.malformed
       THEN \E e \in FormDataErrors :
              st' = [st EXCEPT ![r] = TThrow(Fail(s, "formData", e), e)]
       ELSE IF b.operationType = Str(<<"file">>)
       THEN IF ~Truthy(b.video)
            THEN st' = [st EXCEPT ![r] =
                          ToFinally(s, Json400(<<"No video file provided for upload.">>))]
            ELSE st' = [st EXCEPT ![r] =
                          [Invoke(s, "writeFile") EXCEPT
                              !.pc = "writeFile",
                              !.originalFileNameForDisplay = Str(name),
                              !.videoPath = PathJoin(s.tempSessionDir, name)]]
       ELSE IF b.operationType = Str(<<"url">>)
       THEN IF ~Truthy(b.videoUrl)
            THEN st' = [st EXCEPT ![r] = ToFinally(s, Json400(<<"No video URL provided.">>))]
            ELSE IF ~ValidateURL(b.videoUrl)
            THEN LET e == NewError(<<"Invalid YouTube URL">>)
                 IN  st' = [st EXCEPT ![r] = TThrow(Fail(s, "validateURL", e), e)]
            ELSE st' = [st EXCEPT ![r] = [Invoke(s, "getInfo") EXCEPT !.pc = "getInfo"]]
       ELSE st' = [st EXCEPT ![r] =
                     ToFinally(s, Json400(<<"Invalid operation type. Ensure \"operationType\" is sent correctly from the client.">>))]
    /\ UNCHANGED <<env, dirs, files, workload>>

\* await fsPromises.writeFile(tempUploadedVideoPath, videoBuffer) (line 195),
\* then extractAudio starts the transcoder (line 197)
TWriteFile(r) ==
    LET s == st[r] IN
    /\ s.pc = "writeFile"
    /\ s.route \in TranscribeRoutes
    /\ \/ /\ Writable(s.videoPath)
          /\ files' = PutFile(s.videoPath, s.body.video.bytes)
          /\ \E u \in UniqueSuffixes :
               st' = [st EXCEPT ![r] =
                        StartExtract([Settle(s, "writeFile") EXCEPT
                                         !.written = @ \cup {s.videoPath}], u)]
       \/ /\ files' = files
          /\ \E e \in FsErrors :
               st' = [st EXCEPT ![r] = TThrow(Fail(s, "writeFile", e), e)]
    /\ UNCHANGED <<env, dirs, workload>>

\* await ytdl.getInfo(videoUrl), the title, the format selection and the
\* start of the download (lines 130-149)
TGetInfo(r) ==
    LET s == st[r] IN
    /\ s.pc = "getInfo"
    /\ \/ \E e \in ThrownShapes :
            st' = [st EXCEPT ![r] = TThrow(Fail(s, "getInfo", e), e)]
       \/ \E title \in Titles, formats \in FormatLists, u \in UniqueSuffixes :
            LET videoTitle == SanitizeTitle(title)
                sel == SelectFormat(formats)
                got == [Settle(s, "getInfo") EXCEPT
                           !.formats = formats, !.selected = TRUE, !.format = sel.format]
            IN  IF ~sel.ok
                THEN st' = [st EXCEPT ![r] =
                              TThrow(Fail(got, "chooseFormat", sel.error), sel.error)]
                ELSE st' = [st EXCEPT ![r] =
                              [Invoke(got, "download") EXCEPT
                                  !.pc = "download",
                                  !.videoTitleFromUrl = Str(videoTitle),
                                  !.videoPath =
                                      DownloadedVideoPath(s.tempSessionDir, videoTitle, u)]]
    /\ UNCHANGED <<env, dirs, files, workload>>

\* The download promise settles (lines 151-165).  It resolves on the 'end' of
\* videoStream (line 153), when the last chunk has been handed to
\* fileWriteStream but not necessarily written: the write stream is still
\* flushing.  extractAudio then starts the transcoder (line 167).  It rejects
\* on an 'error' of either stream that comes before the 'end'.
TDownload(r) ==
    LET s == st[r] IN
    /\ s.pc = "download"
    /\ \/ /\ Writable(s.videoPath)
          /\ files' = PutFile(s.videoPath, [owner |-> r, kind |-> "download"])
          /\ \E u \in UniqueSuffixes :
               st' = [st EXCEPT ![r] =
                        StartExtract([Settle(s, "download") EXCEPT
                                         !.written = @ \cup {s.videoPath},
                                         !.writing = TRUE,
                                         !.formats = << >>, !.selected = FALSE], u)]
       \/ /\ files' = files
          /\ \E m \in StreamErrors :
               LET e == NewError(<<"Failed to download YouTube content: ">> \o m)
               IN  st' = [st EXCEPT ![r] = TThrow(Fail(s, "download", e), e)]
       \/ /\ files' = files
          /\ \E x \in FsErrors :
               LET e == NewError(<<"Failed to write YouTube content to disk: ">>
                                 \o x.message.v)
               IN  st' = [st EXCEPT ![r] = TThrow(Fail(s, "fileWriteStream", e), e)]
    /\ UNCHANGED <<env, dirs, workload>>

\* fileWriteStream emits 'finish': everything piped into it is on disk
TStreamFinish(r) ==
    /\ st[r].writing
    /\ st' = [st EXCEPT ![r].writing = FALSE]
    /\ UNCHANGED <<env, dirs, files, workload>>

\* fileWriteStream emits 'error' (line 161) after the promise has resolved on
\* 'end': reject on a settled promise does nothing, the request goes on with
\* the file as far as it was written.  Taken while the outcome of the request
\* is still open.
TStreamError(r) ==
    /\ st[r].writing
    /\ st[r].pc \in {"ffmpeg", "access", "whisper"}
    /\ \E x \in FsErrors :
         LET e == NewError(<<"Failed to write YouTube content to disk: ">> \o x.message.v)
         IN  st' = [st EXCEPT ![r] =
                      [Fail(st[r], "fileWriteStream", e) EXCEPT !.writing = FALSE]]
    /\ UNCHANGED <<env, dirs, files, workload>>

\* Mutant: transcribeWithWhisper goes to the provider without the key check
TFfmpegKeyUnchecked(r) ==
    LET s == st[r] IN
    /\ s.pc = "ffmpeg"
    /\ \/ /\ s.videoPath \in DOMAIN files
          /\ Writable(s.audioOutputPath)
          /\ files' = PutFile(s.audioOutputPath,
                              [owner |-> files[s.videoPath].owner, kind |-> "audio"])
          /\ LET got == [Settle(s, "ffmpeg") EXCEPT
                            !.written = @ \cup {s.audioOutputPath},
                            !.readFrom = @ \cup {files[s.videoPath].owner},
                            !.audioToTranscribePath = s.audioOutputPath,
                            !.originalFileNameForDisplay =
                                IF s.body.operationType = Str(<<"url">>)
                                THEN s.videoTitleFromUrl ELSE @]
             IN  st' = [st EXCEPT ![r] = [Invoke(got, "access") EXCEPT !.pc = "access"]]
       \/ /\ files' = files
          /\ \E m \in FfmpegDiagnostics :
               LET e == NewError(<<"Failed to extract audio: ">> \o m)
               IN  st' = [st EXCEPT ![r] = TThrow(Fail(s, "ffmpeg", e), e)]
    /\ UNCHANGED <<env, dirs, workload>>

\* The transcoder ends (lines 41-48); on 'end' POST goes on to
\* transcribeWithWhisper, whose key check (lines 54-56) is outside its try
TFfmpeg(r) ==
    LET s == st[r] IN
    /\ s.pc = "ffmpeg"
    /\ \/ /\ s.videoPath \in DOMAIN files
          /\ Writable(s.audioOutputPath)
          /\ files' = PutFile(s.audioOutputPath,
                              [owner |-> files[s.videoPath].owner, kind |-> "audio"])
          /\ LET got == [Settle(s, "ffmpeg") EXCEPT
                            !.written = @ \cup {s.audioOutputPath},
                            !.readFrom = @ \cup {files[s.videoPath].owner},
                            !.audioToTranscribePath = s.audioOutputPath,
                            !.originalFileNameForDisplay =
                                IF s.body.operationType = Str(<<"url">>)
                                THEN s.videoTitleFromUrl ELSE @]
             IN  IF ~env.OPENAI_API_KEY
                 THEN LET e == NewError(<<"OpenAI API key is not configured. Cannot transcribe.">>)
                      IN  st' = [st EXCEPT ![r] = TThrow(Fail(got, "keyCheck", e), e)]
                 ELSE st' = [st EXCEPT ![r] = [Invoke(got, "access") EXCEPT !.pc = "access"]]
       \/ /\ files' = files
          /\ \E m \in FfmpegDiagnostics :
               LET e == NewError(<<"Failed to extract audio: ">> \o m)
               IN  st' = [st EXCEPT ![r] = TThrow(Fail(s, "ffmpeg", e), e)]
    /\ UNCHANGED <<env, dirs, workload>>

\* Mutant: the provider call is dispatched whatever the access check says
TAccessIgnored(r) ==
    LET s == st[r] IN
    /\ s.pc = "access"
    /\ \/ /\ s.audioToTranscribePath \in DOMAIN files
          /\ st' = [st EXCEPT ![r] =
                      [Invoke(Settle(s, "access"), "whisper") EXCEPT !.pc = "whisper"]]
       \/ \E e \in FsErrors :
            st' = [st EXCEPT ![r] =
                     [Invoke(Fail(s, "access", e), "whisper") EXCEPT !.pc = "whisper"]]
    /\ UNCHANGED <<env, dirs, files, workload>>

\* await fsPromises.access(audioPath, R_OK) (line 59), then the provider call
\* is dispatched (lines 61-64)
TAccess(r) ==
    LET s == st[r] IN
    /\ s.pc = "access"
    /\ \/ /\ s.audioToTranscribePath \in DOMAIN files
          /\ st' = [st EXCEPT ![r] =
                      [Invoke(Settle(s, "access"), "whisper") EXCEPT !.pc = "whisper"]]
       \/ \E e \in FsErrors :
            st' = [st EXCEPT ![r] = TThrow(Fail(s, "access", e), WhisperCatch(s.route, e))]
    /\ UNCHANGED <<env, dirs, files, workload>>

\* POST's 200 response: part_000 lines 221-225, part_001 line 185
TranscribeOk(s, text) ==
    [BlankResp EXCEPT
        !.status = 200,
        !.transcription = JsonField(text),
        !.videoTitle = JsonField(s.videoTitleFromUrl),
        !.originalFileName =
            IF s.route = "t0" THEN JsonField(s.originalFileNameForDisplay) ELSE Absent]

\* The provider answers or fails (lines 61-122), and POST answers (219-225)
TWhisper(r) ==
    LET s == st[r] IN
    /\ s.pc = "whisper"
    /\ \/ \E transcription \in WhisperResponses :
            LET res == WhisperText(s.route, transcription)
                got == [Settle(s, "whisper") EXCEPT !.transcription = transcription]
            IN  IF res.ok
                THEN st' = [st EXCEPT ![r] = ToFinally(got, TranscribeOk(s, res.value))]
                ELSE st' = [st EXCEPT ![r] =
                              TThrow(Fail(got, "whisperText", res.error),
                                     WhisperCatch(s.route, res.error))]
       \/ \E e \in ThrownShapes :
            st' = [st EXCEPT ![r] = TThrow(Fail(s, "whisper", e), WhisperCatch(s.route, e))]
    /\ UNCHANGED <<env, dirs, files, workload>>

\* Mutant: the rm of the finally block is not in a try of its own; its
\* rejection leaves the handler and replaces the pending response
TCleanupPropagates(r) ==
    LET s == st[r]
        out == [Invoke(s, "rm") EXCEPT !.pc = "done", !.resp = s.pending]
    IN
    /\ s.pc = "finally"
    /\ s.route \in TranscribeRoutes
    /\ \/ /\ dirs' = RmDirs(s.tempSessionDir)
          /\ files' = RmFiles(s.tempSessionDir)
          /\ st' = [st EXCEPT ![r] = out]
       \/ /\ UNCHANGED <<dirs, files>>
          /\ st' = [st EXCEPT ![r] = [out EXCEPT !.rmFailed = TRUE, !.resp = Unhandled]]
    /\ UNCHANGED <<env, workload>>

\* The finally block (lines 260-270): rm succeeds, or fails and is logged;
\* then the pending response is returned
TCleanup(r) ==
    LET s == st[r]
        out == [Invoke(s, "rm") EXCEPT !.pc = "done", !.resp = s.pending]
    IN
    /\ s.pc = "finally"
    /\ s.route \in TranscribeRoutes
    /\ \/ /\ dirs' = RmDirs(s.tempSessionDir)
          /\ files' = RmFiles(s.tempSessionDir)
          /\ st' = [st EXCEPT ![r] = out]
       \/ /\ UNCHANGED <<dirs, files>>
          /\ st' = [st EXCEPT ![r] = [out EXCEPT !.rmFailed = TRUE]]
    /\ UNCHANGED <<env, workload>>

-----------------------------------------------------------------------------
(* The document-conversion route: route.ts ("c0") and part_001 209-414 ("c1") *)

ConvertRoutes == {"c0", "c1"}

\* part_001 line 240
SUPPORTED_DOC_OUTPUT_FORMATS_API == {"pdf", "docx", "txt", "html", "odt", "pptx", "jpg", "png"}

\* part_001 lines 230-239
EXT_TO_MIMETYPE ==
    [x \in SUPPORTED_DOC_OUTPUT_FORMATS_API |->
        CASE x = "pdf"  -> "application/pdf"
          [] x = "docx" -> "application/vnd.openxmlformats-officedocument.wordprocessingml.document"
          [] x = "txt"  -> "text/plain"
          [] x = "html" -> "text/html"
          [] x = "odt"  -> "application/vnd.oasis.opendocument.text"
          [] x = "pptx" -> "application/vnd.openxmlformats-officedocument.presentationml.presentation"
          [] x = "jpg"  -> "image/jpeg"
          [] x = "png"  -> "image/png"]

\* String.prototype.toLowerCase on a one-token string
LowerToken(x) ==
    CASE x = "PDF" -> "pdf"
      [] x = "Docx" -> "docx"
      [] x = "EXE" -> "exe"
      [] OTHER -> x

ToLowerCase(x) == Str([i \in 1 .. Len(x.v) |-> LowerToken(x.v[i])])

\* Mutant: the format is only required to be a non-empty string
SupportedAnyFormat(targetFormat) == Len(targetFormat.v) = 1

\* SUPPORTED_DOC_OUTPUT_FORMATS_API.includes(targetFormat.toLowerCase())
Supported(targetFormat) ==
    LET lower == ToLowerCase(targetFormat).v
    IN  Len(lower) = 1 /\ lower[1] \in SUPPORTED_DOC_OUTPUT_FORMATS_API

TargetFormats ==
    {Null, Str(<< >>), Str(<<"exe">>), Str(<<"pdf">>), Str(<<"PDF">>), Str(<<"Docx">>)}

\* The form data a conversion request may carry
ConvertBodies(r, names) ==
    {NoBody}
    \cup { [BlankBody EXCEPT !.document = d, !.targetFormat = f, !.inputFileName = n] :
              d \in {Null} \cup { FileObj(x, r) : x \in names },
              f \in TargetFormats,
              n \in {Null, Str(<<"report.docx">>)} }

\* A task of a job
Task(name, id, status, message, result) ==
    [t |-> "object", name |-> name, id |-> id, status |-> status,
     message |-> message, result |-> result]

JobObj(id, status, message, tasks) ==
    [t |-> "object", id |-> id, status |-> status, message |-> message, tasks |-> tasks]

JobId == Str(<<"job-1">>)
ImportTask(id) == Task("import-file", id, "waiting", Absent, Absent)
ConvertTask(status, message) == Task("convert-file", Str(<<"t2">>), status, message, Absent)
ExportTask(status, result) == Task("export-file", Str(<<"t3">>), status, Absent, result)

\* What cloudConvert.jobs.create may resolve to.  A job without a tasks array
\* is a job with no tasks: tasks?.find finds nothing in either.
CreatedJobs ==
    { Null,
      JobObj(Absent, "waiting", Absent, <<ImportTask(Str(<<"t1">>))>>),
      JobObj(JobId, "waiting", Absent, << >>),
      JobObj(JobId, "waiting", Absent, <<ConvertTask("waiting", Absent)>>),
      JobObj(JobId, "waiting", Absent, <<ImportTask(Absent)>>),
      JobObj(JobId, "waiting", Absent,
             <<ImportTask(Str(<<"t1">>)), ConvertTask("waiting", Absent),
               ExportTask("waiting", Absent)>>) }

ResultFile(filename, url) == [t |-> "object", filename |-> filename, url |-> url]
Result(filesOfResult) == [t |-> "object", files |-> filesOfResult]

Encrypted == Str(<<"Encrypted file">>)
JobFailed == Str(<<"Job failed">>)
OutUrl == Str(<<"https://storage/out">>)
OutName == Str(<<"out.pdf">>)

DoneImport == Task("import-file", Str(<<"t1">>), "finished", Absent, Absent)

\* What cloudConvert.jobs.wait may resolve to
CompletedJobs ==
    { JobObj(JobId, "error", m,
             <<DoneImport, ConvertTask("error", tm), ExportTask("error", Absent)>>) :
          m \in {Absent, JobFailed}, tm \in {Absent, Str(<< >>), Encrypted} }
    \cup { JobObj(JobId, "error", JobFailed, <<DoneImport>>) }
    \cup { JobObj(JobId, "finished", Absent, <<DoneImport, ConvertTask("finished", Absent)>>) }
    \cup { JobObj(JobId, js, Absent,
                  <<DoneImport, ConvertTask("finished", Absent), ExportTask(es, res)>>) :
              js \in {"finished", "processing"},
              es \in {"finished", "error"},
              res \in { Absent, Result(<< >>),
                        Result(<<ResultFile(OutName, OutUrl)>>),
                        Result(<<ResultFile(Absent, OutUrl)>>),
                        Result(<<ResultFile(OutName, Absent)>>) } }

\* tasks?.find(task => task.name === name)
FindByName(tasks, name) ==
    LET hits == { i \in 1 .. Len(tasks) : tasks[i].name = name }
    IN  IF hits = {} THEN Undef
        ELSE tasks[CHOOSE i \in hits : \A j \in hits : i <= j]

\* tasks?.find(t => t.status === status)
FindByStatus(tasks, status) ==
    LET hits == { i \in 1 .. Len(tasks) : tasks[i].status = status }
    IN  IF hits = {} THEN Undef
        ELSE tasks[CHOOSE i \in hits : \A j \in hits : i <= j]

\* `${a || b || c}` of strings
FirstTruthy(a, b, c) == IF Truthy(a) THEN a.v ELSE IF Truthy(b) THEN b.v ELSE c

\* Mutant: the job's message is preferred to the failed task's message
JobFailureMessageJobFirst(route, completedJob) ==
    LET failedTask == FindByStatus(completedJob.tasks, "error")
    IN  <<"CloudConvert job failed: ">>
        \o FirstTruthy(Get(completedJob, "message"), Get(failedTask, "message"),
                       IF route = "c0" THEN <<"Unknown error">>
                       ELSE <<"Unknown error from CloudConvert">>)

\* route.ts lines 77-81 / part_001 lines 283-297: the message of a failed job
JobFailureMessage(route, completedJob) ==
    LET failedTask == FindByStatus(completedJob.tasks, "error")
        taskErrorMessage == Get(failedTask, "message")
        jobMessage == Get(completedJob, "message")
        jobErrorMessage == IF IsStr(jobMessage) THEN jobMessage ELSE Undef
    IN  <<"CloudConvert job failed: ">>
        \o (IF route = "c0"
            THEN FirstTruthy(taskErrorMessage, jobMessage, <<"Unknown error">>)
            ELSE FirstTruthy(taskErrorMessage, jobErrorMessage,
                             <<"Unknown error from CloudConvert">>))

\* Mutant: the status of the export task is not looked at
ExportUsableAnyStatus(exportTask) ==
    /\ IsObj(exportTask)
    /\ Truthy(exportTask.result)
    /\ exportTask.result.files # << >>

\* route.ts lines 83-87 / part_001 lines 299-305
ExportUsable(exportTask) ==
    /\ IsObj(exportTask)
    /\ exportTask.status = "finished"
    /\ Truthy(exportTask.result)
    /\ exportTask.result.files # << >>

\* Mutant: the declared file name of the result is ignored
ConvertedFileNameFromInput(resultFile, inputName, targetFormat) ==
    ParseName(inputName) \o <<".">> \o targetFormat.v

\* route.ts line 90: resultFile.filename || `${path.parse(inputFile.name).name}.${targetFormat}`
ConvertedFileName(resultFile, inputName, targetFormat) ==
    IF Truthy(Get(resultFile, "filename")) THEN resultFile.filename.v
    ELSE ParseName(inputName) \o <<".">> \o targetFormat.v

\* What fetch(resultFile.url) may resolve to
FetchResponses ==
    [ok : BOOLEAN, hasBody : BOOLEAN, statusText : {<<"Not Found">>},
     bytes : {<< >>, <<"converted">>}]

\* route.ts lines 105-131: the catch of performCloudConversion rethrows
ConversionCatch(e) ==
    NewError(<<"CloudConvert processing failed: ">>
             \o (IF InstanceOfError(e) THEN e.message.v
                 ELSE <<"Unknown CloudConvert error">>))

\* route.ts lines 172-175
ConvertMessage(e) ==
    IF InstanceOfError(e) THEN e.message.v
    ELSE <<"An unknown error occurred during document conversion.">>

\* route.ts lines 177-192
ConvertDetails(e) ==
    IF ~IsObj(e) THEN Null
    ELSE IF Has(e, "details") THEN e.details
    ELSE IF Has(e, "response")
         THEN IF IsObj(e.response) /\ Has(e.response, "data")
              THEN e.response.data ELSE e.response
    ELSE IF InstanceOfError(e) THEN Null
    ELSE e

\* route.ts lines 170-195: the catch of POST
ConvertCatch(e) == Json500(ConvertMessage(e), ConvertDetails(e))

\* a return of POST: the conversion route has no finally block
Respond(s, response) == [s EXCEPT !.pc = "done", !.resp = response]

\* a throw inside the try of POST
CThrow(s, e) == Respond([s EXCEPT !.caught = e], ConvertCatch(e))

\* a throw inside the try of performCloudConversion
PThrow(s, e) == CThrow(s, ConversionCatch(e))

\* Mutant: the MIME table is read with targetFormat as the client sent it
ConvertOkRawKey(s, bytes) ==
    LET key == s.body.targetFormat.v[1] IN
    [BlankResp EXCEPT
        !.status = 200,
        !.contentType = Str(<<IF key \in DOMAIN EXT_TO_MIMETYPE THEN EXT_TO_MIMETYPE[key]
                              ELSE "application/octet-stream">>),
        !.contentDisposition =
            Str(<<"attachment; filename=\"">> \o s.convertedFileName \o <<"\"">>),
        !.bytes = Str(bytes)]

\* route.ts lines 163-168
ConvertOk(s, bytes) ==
    [BlankResp EXCEPT
        !.status = 200,
        !.contentType = Str(<<EXT_TO_MIMETYPE[ToLowerCase(s.body.targetFormat).v[1]]>>),
        !.contentDisposition =
            Str(<<"attachment; filename=\"">> \o s.convertedFileName \o <<"\"">>),
        !.bytes = Str(bytes)]

\* Mutant: POST reads the form data without the key check
CArriveKeyUnchecked(r) ==
    /\ st[r].pc = "idle"
    /\ r \in workload.reqs
    /\ \E route \in workload.routes \cap ConvertRoutes,
          body \in ConvertBodies(r, workload.names) :
         st' = [st EXCEPT ![r] = [@ EXCEPT !.route = route, !.body = body,
                                           !.pc = "formData"]]
    /\ UNCHANGED <<env, dirs, files, workload>>

\* The request arrives; the key check of POST (lines 138-141) is outside the try
CArrive(r) ==
    /\ st[r].pc = "idle"
    /\ r \in workload.reqs
    /\ \E route \in workload.routes \cap ConvertRoutes,
          body \in ConvertBodies(r, workload.names) :
         LET s == [st[r] EXCEPT !.route = route, !.body = body]
         IN  IF ~env.CLOUDCONVERT_API_KEY
             THEN st' = [st EXCEPT ![r] =
                           Respond(s, [BlankResp EXCEPT
                               !.status = 500,
                               !.error = Str(<<"Server configuration error for conversion service.">>)])]
             ELSE st' = [st EXCEPT ![r] = [s EXCEPT !.pc = "formData"]]
    /\ UNCHANGED <<env, dirs, files, workload>>

\* await req.formData(), the validation (lines 144-154) and the job creation
\* request of performCloudConversion (line 28)
CParseForm(r) ==
    LET s == st[r]
        b == s.body
    IN
    /\ s.pc = "formData"
    /\ s.route \in ConvertRoutes
    /\ IF b.malformed
       THEN \E e \in FormDataErrors :
              st' = [st EXCEPT ![r] = CThrow(Fail(s, "formData", e), e)]
       ELSE IF ~Truthy(b.document) \/ ~Truthy(b.inputFileName)
       THEN st' = [st EXCEPT ![r] = Respond(s, Json400(<<"No document file provided.">>))]
       ELSE IF ~Truthy(b.targetFormat) \/ ~Supported(b.targetFormat)
       THEN st' = [st EXCEPT ![r] =
                     Respond(s, Json400(<<"Unsupported target format: ">>
                                        \o (IF IsStr(b.targetFormat) THEN b.targetFormat.v
                                            ELSE <<"null">>)))]
       ELSE st' = [st EXCEPT ![r] = [Invoke(s, "jobs.create") EXCEPT !.pc = "jobsCreate"]]
    /\ UNCHANGED <<env, dirs, files, workload>>

\* Mutant: the import task of the created job is not checked before mkdtemp
CJobsCreateTaskUnchecked(r) ==
    LET s == st[r] IN
    /\ s.pc = "jobsCreate"
    /\ \/ \E e \in ThrownShapes :
            st' = [st EXCEPT ![r] = PThrow(Fail(s, "jobs.create", e), e)]
       \/ \E job \in CreatedJobs :
            LET got == [Settle(s, "jobs.create") EXCEPT !.job = job]
                noJob == NewError(<<"CloudConvert job creation failed or job has no ID.">>)
            IN  IF ~Truthy(job) \/ ~Truthy(job.id)
                THEN st' = [st EXCEPT ![r] = PThrow(Fail(got, "jobCheck", noJob), noJob)]
                ELSE st' = [st EXCEPT ![r] = [Invoke(got, "mkdtemp") EXCEPT !.pc = "mkdtemp"]]
    /\ UNCHANGED <<env, dirs, files, workload>>

\* jobs.create settles; the job and its import task are checked (lines 51-60)
\* and mkdtemp is requested (line 62)
CJobsCreate(r) ==
    LET s == st[r] IN
    /\ s.pc = "jobsCreate"
    /\ \/ \E e \in ThrownShapes :
            st' = [st EXCEPT ![r] = PThrow(Fail(s, "jobs.create", e), e)]
       \/ \E job \in CreatedJobs :
            LET uploadTask == IF IsObj(job) THEN FindByName(job.tasks, "import-file") ELSE Undef
                got == [Settle(s, "jobs.create") EXCEPT !.job = job]
                noJob == NewError(<<"CloudConvert job creation failed or job has no ID.">>)
                noTask == NewError(<<"CloudConvert upload task not found in job or task has no ID.">>)
            IN  IF ~Truthy(job) \/ ~Truthy(job.id)
                THEN st' = [st EXCEPT ![r] = PThrow(Fail(got, "jobCheck", noJob), noJob)]
                ELSE IF ~Truthy(uploadTask) \/ ~Truthy(uploadTask.id)
                THEN st' = [st EXCEPT ![r] = PThrow(Fail(got, "jobCheck", noTask), noTask)]
                ELSE st' = [st EXCEPT ![r] = [Invoke(got, "mkdtemp") EXCEPT !.pc = "mkdtemp"]]
    /\ UNCHANGED <<env, dirs, files, workload>>

\* fs.mkdtemp settles (line 62); the file write is requested (lines 63-64)
CMkdtemp(r) ==
    LET s == st[r] IN
    /\ s.pc = "mkdtemp"
    /\ \/ \E d \in MkdtempNames("cc-upload-") :
            /\ dirs' = dirs \cup {d}
            /\ st' = [st EXCEPT ![r] =
                        [Invoke(Settle(s, "mkdtemp"), "writeFile") EXCEPT
                            !.pc = "writeFile", !.tempDir = d,
                            !.tempFilePath = PathJoin(d, s.body.document.name),
                            !.created = @ \cup {d}]]
       \/ /\ dirs' = dirs
          /\ \E e \in FsErrors :
               st' = [st EXCEPT ![r] = PThrow(Fail(s, "mkdtemp", e), e)]
    /\ UNCHANGED <<env, files, workload>>

\* fs.writeFile settles (line 64); the upload is requested (line 71)
CWriteFile(r) ==
    LET s == st[r] IN
    /\ s.pc = "writeFile"
    /\ s.route \in ConvertRoutes
    /\ \/ /\ Writable(s.tempFilePath)
          /\ files' = PutFile(s.tempFilePath, s.body.document.bytes)
          /\ st' = [st EXCEPT ![r] =
                      [Invoke(Settle(s, "writeFile"), "tasks.upload") EXCEPT
                          !.pc = "upload", !.written = @ \cup {s.tempFilePath}]]
       \/ /\ files' = files
          /\ \E e \in FsErrors :
               st' = [st EXCEPT ![r] = PThrow(Fail(s, "writeFile", e), e)]
    /\ UNCHANGED <<env, dirs, workload>>

\* Mutant: the upload is not awaited; the handler goes on while it is running
CUploadNotAwaited(r) ==
    LET s == st[r] IN
    /\ s.pc = "upload"
    /\ st' = [st EXCEPT ![r] = [Invoke(s, "rm") EXCEPT !.pc = "rm"]]
    /\ UNCHANGED <<env, dirs, files, workload>>

\* Mutant: a failed upload is tried a second time
CUploadRetry(r) ==
    LET s == st[r] IN
    /\ s.pc = "upload"
    /\ \/ st' = [st EXCEPT ![r] =
                  [Invoke(Settle(s, "tasks.upload"), "rm") EXCEPT !.pc = "rm"]]
       \/ \E e \in ThrownShapes :
            IF Count(s, "tasks.upload") < 2
            THEN st' = [st EXCEPT ![r] = Invoke(Fail(s, "tasks.upload", e), "tasks.upload")]
            ELSE st' = [st EXCEPT ![r] = PThrow(Fail(s, "tasks.upload", e), e)]
    /\ UNCHANGED <<env, dirs, files, workload>>

\* tasks.upload settles (line 71); the removal of tempDir is requested (line 72)
CUpload(r) ==
    LET s == st[r] IN
    /\ s.pc = "upload"
    /\ \/ st' = [st EXCEPT ![r] =
                  [Invoke(Settle(s, "tasks.upload"), "rm") EXCEPT !.pc = "rm"]]
       \/ \E e \in ThrownShapes :
            st' = [st EXCEPT ![r] = PThrow(Fail(s, "tasks.upload", e), e)]
    /\ UNCHANGED <<env, dirs, files, workload>>

\* fs.rm settles (line 72); the wait for the job is requested (line 75)
CRm(r) ==
    LET s == st[r] IN
    /\ s.pc = "rm"
    /\ \/ /\ dirs' = RmDirs(s.tempDir)
          /\ files' = RmFiles(s.tempDir)
          /\ st' = [st EXCEPT ![r] =
                      [Invoke(Settle(s, "rm"), "jobs.wait") EXCEPT !.pc = "wait"]]
       \/ /\ UNCHANGED <<dirs, files>>
          /\ \E e \in FsErrors :
               st' = [st EXCEPT ![r] =
                        PThrow([Fail(s, "rm", e) EXCEPT !.rmFailed = TRUE], e)]
    /\ UNCHANGED <<env, workload>>

\* jobs.wait settles (line 75); the completed job is checked (lines 77-94)
\* and the download is requested (line 97)
CWait(r) ==
    LET s == st[r] IN
    /\ s.pc = "wait"
    /\ \/ \E e \in ThrownShapes :
            st' = [st EXCEPT ![r] = PThrow(Fail(s, "jobs.wait", e), e)]
       \/ \E completedJob \in CompletedJobs :
            LET exportTask == FindByName(completedJob.tasks, "export-file")
                resultFile == exportTask.result.files[1]
                got == [Settle(s, "jobs.wait") EXCEPT !.job = completedJob]
                jobFailed == NewError(JobFailureMessage(s.route, completedJob))
                noFile == NewError(<<"CloudConvert export task failed or did not produce a file.">>)
                noUrl == NewError(<<"CloudConvert export task result did not contain a URL.">>)
            IN  IF completedJob.status = "error"
                THEN st' = [st EXCEPT ![r] = PThrow(Fail(got, "jobStatus", jobFailed), jobFailed)]
                ELSE IF ~ExportUsable(exportTask)
                THEN st' = [st EXCEPT ![r] = PThrow(Fail(got, "exportCheck", noFile), noFile)]
                ELSE IF ~Truthy(Get(resultFile, "url"))
                THEN st' = [st EXCEPT ![r] = PThrow(Fail(got, "urlCheck", noUrl), noUrl)]
                ELSE st' = [st EXCEPT ![r] =
                              [Invoke(got, "fetch") EXCEPT
                                  !.pc = "fetch",
                                  !.convertedFileName =
                                      ConvertedFileName(resultFile, s.body.document.name,
                                                        s.body.targetFormat)]]
    /\ UNCHANGED <<env, dirs, files, workload>>

\* fetch settles and the body is read (lines 97-103); POST answers (163-168)
CFetch(r) ==
    LET s == st[r] IN
    /\ s.pc = "fetch"
    /\ \/ \E e \in ThrownShapes :
            st' = [st EXCEPT ![r] = PThrow(Fail(s, "fetch", e), e)]
       \/ \E downloadResponse \in FetchResponses :
            LET got == [Settle(s, "fetch") EXCEPT !.downloaded = downloadResponse]
                bad == NewError(<<"Failed to download converted file from CloudConvert: ">>
                                \o downloadResponse.statusText)
            IN  IF ~downloadResponse.ok \/ ~downloadResponse.hasBody
                THEN st' = [st EXCEPT ![r] = PThrow(Fail(got, "fetchCheck", bad), bad)]
                ELSE st' = [st EXCEPT ![r] = Respond(got, ConvertOk(s, downloadResponse.bytes))]
    /\ UNCHANGED <<env, dirs, files, workload>>

-----------------------------------------------------------------------------
(* Specifications *)

AllRoutes == TranscribeRoutes \cup ConvertRoutes

Init ==
    /\ env \in [OPENAI_API_KEY : BOOLEAN, CLOUDCONVERT_API_KEY : BOOLEAN]
    /\ dirs = {TmpDir}
    /\ files = << >>
    /\ st = [r \in Reqs |-> InitReq]
    /\ workload = [reqs |-> {1}, routes |-> AllRoutes, names |-> UploadNames,
                   uploadsOnly |-> FALSE]

Step(r) ==
    \/ TArrive(r)
    \/ TParseForm(r)
    \/ TWriteFile(r)
    \/ TGetInfo(r)
    \/ TDownload(r)
    \/ TStreamFinish(r)
    \/ TStreamError(r)
    \/ TFfmpeg(r)
    \/ TAccess(r)
    \/ TWhisper(r)
    \/ TCleanup(r)
    \/ CArrive(r)
    \/ CParseForm(r)
    \/ CJobsCreate(r)
    \/ CMkdtemp(r)
    \/ CWriteFile(r)
    \/ CUpload(r)
    \/ CRm(r)
    \/ CWait(r)
    \/ CFetch(r)

Next == \E r \in Reqs : Step(r)

\* One request at a time, of either route in either revision, with every input
Spec == Init /\ [][Next]_vars

\* Concurrent uploads to the transcription route
InitConc ==
    /\ env = [OPENAI_API_KEY |-> TRUE, CLOUDCONVERT_API_KEY |-> TRUE]
    /\ dirs = {TmpDir}
    /\ files = << >>
    /\ st = [r \in Reqs |-> InitReq]
    /\ workload = [reqs |-> Reqs, routes |-> {"t0"}, names |-> UploadNames,
                   uploadsOnly |-> TRUE]

StepConc(r) ==
    \/ TArrive(r)
    \/ TParseForm(r)
    \/ TWriteFile(r)
    \/ TFfmpeg(r)
    \/ TAccess(r)
    \/ TWhisper(r)
    \/ TCleanup(r)

NextConc == \E r \in Reqs : StepConc(r)

SpecConc == InitConc /\ [][NextConc]_vars

\* Every value a catch (error: unknown) may receive: primitives, and objects
\* with or without message, response, error and details; an Error instance
\* always has a message string
CaughtValues ==
    {Null, Undef, Str(<<"thrown string">>), Num(42)}
    \cup { e \in { Thrown(isError, message, response, error, details) :
                      isError \in BOOLEAN,
                      message \in {Absent, Str(<<"boom">>)},
                      response \in {Absent, Null, [t |-> "object", data |-> Payload],
                                    [t |-> "object", data |-> Absent]},
                      error \in {Absent, Payload},
                      details \in {Absent, Str(<<"own details">>)} } :
             e.isError => e.message # Absent }

\* The catch block of POST of the route
BoundaryCatch(route, e) ==
    IF route \in TranscribeRoutes THEN TranscribeCatch(route, e) ELSE ConvertCatch(e)

\* The try block of POST throws e; the catch block builds the response
Caught(r) ==
    /\ st[r].pc = "idle"
    /\ r \in workload.reqs
    /\ \E route \in workload.routes, e \in CaughtValues :
         st' = [st EXCEPT ![r] =
                  [@ EXCEPT !.route = route, !.pc = "done", !.caught = e,
                            !.resp = BoundaryCatch(route, e)]]
    /\ UNCHANGED <<env, dirs, files, workload>>

InitNorm ==
    /\ env = [OPENAI_API_KEY |-> TRUE, CLOUDCONVERT_API_KEY |-> TRUE]
    /\ dirs = {TmpDir}
    /\ files = << >>
    /\ st = [r \in Reqs |-> InitReq]
    /\ workload = [reqs |-> {1}, routes |-> AllRoutes, names |-> UploadNames,
                   uploadsOnly |-> FALSE]

NextNorm == \E r \in Reqs : Caught(r)

\* The boundary error normalization of each route, on every caught value
SpecNorm == InitNorm /\ [][NextNorm]_vars

-----------------------------------------------------------------------------
(* Properties *)

Transcribing(r) == st[r].route \in TranscribeRoutes
Converting(r) == st[r].route \in ConvertRoutes
Done(r) == st[r].pc = "done"

\* The response the request has returned or is about to return
Outcome(r) == IF st[r].pc = "finally" THEN st[r].pending ELSE st[r].resp

NetworkOps == {"getInfo", "download", "whisper"}
TranscribeProviderOps == {"getInfo", "download", "ffmpeg", "whisper"}
ConvertProviderOps == {"jobs.create", "tasks.upload", "jobs.wait", "fetch"}

CalledAny(r, ops) == \E i \in 1 .. Len(st[r].calls) : st[r].calls[i] \in ops

\* The request carries operationType 'url' and a videoUrl that fails validation
InvalidUrlRequest(r) ==
    /\ Transcribing(r)
    /\ st[r].tempSessionDir # NoPath
    /\ ~st[r].body.malformed
    /\ st[r].body.operationType = Str(<<"url">>)
    /\ Truthy(st[r].body.videoUrl)
    /\ ~(st[r].body.videoUrl = GoodUrl)

\* C1, stated for the runs in which every removal that was attempted
\* succeeded: when the response is returned, no temporary directory the
\* request created exists any more.
C1_NoTempDirAtResponse ==
    \A r \in Reqs :
        (Done(r) /\ ~st[r].rmFailed) => st[r].created \cap dirs = {}

\* C2: a transcription request with operationType 'url' and a syntactically
\* invalid videoUrl is answered 400 with a message naming the invalid URL.
C2_InvalidUrlIs400 ==
    \A r \in Reqs :
        (Done(r) /\ InvalidUrlRequest(r)) =>
            /\ st[r].resp.status = 400
            /\ st[r].resp.error = Str(<<"Invalid YouTube URL">>)

\* C3: when the URL fails validation, the request never issues a network
\* operation (metadata resolution, stream download, transcription call), and
\* the failure ends acquisition: the transcoder is never started and the
\* request goes straight to its error response.
C3_NoNetworkOnInvalidUrl ==
    \A r \in Reqs :
        InvalidUrlRequest(r) =>
            /\ ~CalledAny(r, NetworkOps \cup {"ffmpeg"})
            /\ st[r].pc \in {"formData", "finally", "done"}
            /\ st[r].pc # "formData" => Outcome(r).error = Str(<<"Invalid YouTube URL">>)

C3_Witness ==
    \E r \in Reqs :
        /\ Done(r)
        /\ InvalidUrlRequest(r)
        /\ st[r].body.videoUrl = BadUrl
        /\ st[r].resp.error = Str(<<"Invalid YouTube URL">>)
        /\ st[r].calls = <<"mkdtemp", "rm">>

\* The conversion request's targetFormat is missing or outside the supported set
BadTargetRequest(r) ==
    /\ Converting(r)
    /\ ~st[r].body.malformed
    /\ (~Truthy(st[r].body.targetFormat)
        \/ ToLowerCase(st[r].body.targetFormat).v \notin
               { <<x>> : x \in SUPPORTED_DOC_OUTPUT_FORMATS_API })

\* C4 as stated: every conversion request whose targetFormat is missing or
\* unsupported is answered 400, and no conversion-provider operation is invoked.
C4_Original ==
    \A r \in Reqs :
        (Done(r) /\ BadTargetRequest(r)) =>
            /\ st[r].resp.status = 400
            /\ ~CalledAny(r, ConvertProviderOps)

\* C4 as amended: for such a request no conversion-provider operation is ever
\* invoked and no temporary directory is created; the response is 400 when
\* the conversion API key is configured and 500 when it is not.
C4_UnsupportedTargetNoProvider ==
    \A r \in Reqs :
        BadTargetRequest(r) =>
            /\ ~CalledAny(r, ConvertProviderOps)
            /\ st[r].created = {}
            /\ Done(r) =>
                 st[r].resp.status = IF env.CLOUDCONVERT_API_KEY THEN 400 ELSE 500

C4_Witness ==
    \E r \in Reqs :
        /\ Done(r)
        /\ BadTargetRequest(r)
        /\ Truthy(st[r].body.document)
        /\ Truthy(st[r].body.inputFileName)
        /\ st[r].body.targetFormat = Str(<<"exe">>)
        /\ st[r].resp.status = 400
        /\ st[r].resp.error = Str(<<"Unsupported target format: ", "exe">>)

\* The job the wait returned has status 'error' and its failed task carries
\* the message m
JobFailedWith(r, m) ==
    /\ Converting(r)
    /\ Called(st[r], "jobs.wait")
    /\ IsObj(st[r].job)
    /\ st[r].job.status = "error"
    /\ Get(FindByStatus(st[r].job.tasks, "error"), "message") = m

\* C5: when the job completes with status 'error' and its failed task carries
\* the message "Encrypted file", the response is 500 and its details field
\* holds exactly that message.
C5_JobErrorDetails ==
    \A r \in Reqs :
        (Done(r) /\ JobFailedWith(r, Encrypted)) =>
            /\ st[r].resp.status = 500
            /\ st[r].resp.details = Encrypted

\* The formats of a list that can be downloaded and satisfy the filter
UsableAudioOnly(formats) ==
    { i \in 1 .. Len(formats) : formats[i].hasUrl /\ AudioOnly(formats[i]) }
UsableWithAudio(formats) ==
    { i \in 1 .. Len(formats) : formats[i].hasUrl /\ formats[i].hasAudio }

\* The first format among the indices that has the highest audio bitrate
BestByAudio(formats, among) ==
    formats[CHOOSE i \in among :
               /\ \A j \in among : formats[j].audioBitrate <= formats[i].audioBitrate
               /\ \A j \in among : j < i => formats[j].audioBitrate < formats[i].audioBitrate]

\* The first format among the indices
FirstOf(formats, among) == formats[CHOOSE i \in among : \A j \in among : i <= j]

\* C6: for every list of formats, the format chosen is the best audio-only
\* one when an audio-only format with a URL exists; otherwise the best
\* audio-bearing one when some format has an audio track; otherwise the
\* acquisition fails and nothing is downloaded.
C6_FormatSelection ==
    \A r \in Reqs :
        st[r].selected =>
            LET formats == st[r].formats IN
            IF UsableAudioOnly(formats) # {}
            THEN /\ st[r].format = BestByAudio(formats, UsableAudioOnly(formats))
                 /\ Called(st[r], "download")
            ELSE IF UsableWithAudio(formats) # {}
            THEN /\ st[r].format = FirstOf(formats, UsableWithAudio(formats))
                 /\ Called(st[r], "download")
            ELSE /\ st[r].format = NoFormat
                 /\ ~Called(st[r], "download")
                 /\ Outcome(r).status = 500

\* Both requests are in flight
Live(r) == st[r].pc \notin {"idle", "done"} /\ st[r].tempSessionDir # NoPath

\* C7: two concurrent transcription requests have distinct Workspaces, no
\* file written by one lies in the Workspace of the other, and the media each
\* one's transcoder reads is its own upload (its outcome is the one it would
\* have alone).
C7_Isolation ==
    \A r, q \in Reqs :
        r # q =>
            /\ (Live(r) /\ Live(q)) =>
                 /\ st[r].tempSessionDir # st[q].tempSessionDir
                 /\ \A p \in st[r].written : ~Inside(p, st[q].tempSessionDir)
            /\ st[r].readFrom \subseteq {r}

\* The provider answered with an object whose text is the empty string
SilentAnswer(r) ==
    /\ Transcribing(r)
    /\ IsObj(st[r].transcription)
    /\ st[r].transcription.text = Str(<< >>)

\* C8: when acquisition and extraction succeeded and the provider's response
\* has the empty string as text, the response is 200 with transcription equal
\* to the empty string; it is never an error and never leaves the handler as
\* a throw.
C8_SilentClip ==
    \A r \in Reqs :
        SilentAnswer(r) =>
            /\ st[r].pc \in {"finally", "done"}
            /\ Outcome(r).status = 200
            /\ Outcome(r).transcription = Str(<< >>)
            /\ Outcome(r).error = Absent
            /\ ~Outcome(r).unhandled

C8_Witness ==
    \E r \in Reqs :
        /\ Done(r)
        /\ SilentAnswer(r)
        /\ st[r].route = "t1"
        /\ Called(st[r], "ffmpeg")
        /\ Called(st[r], "whisper")
        /\ st[r].resp.status = 200
        /\ st[r].resp.transcription = Str(<< >>)

\* The transcription request's input is missing or invalid
InvalidTranscribeInput(r) ==
    /\ Transcribing(r)
    /\ st[r].tempSessionDir # NoPath
    /\ ~st[r].body.malformed
    /\ LET b == st[r].body IN
       \/ b.operationType = Str(<<"file">>) /\ ~Truthy(b.video)
       \/ b.operationType = Str(<<"url">>) /\ ~(b.videoUrl = GoodUrl)
       \/ b.operationType \notin {Str(<<"file">>), Str(<<"url">>)}

\* C9: every transcription request with missing or invalid input is answered
\* 400, and no external provider call is made during it.
C9_InvalidInputIs400 ==
    \A r \in Reqs :
        (Done(r) /\ InvalidTranscribeInput(r)) =>
            /\ st[r].resp.status = 400
            /\ ~CalledAny(r, TranscribeProviderOps)

\* C10: every 200 response of the transcription route, in either revision,
\* carries a transcription that is a string.
C10_TranscriptionIsString ==
    \A r \in Reqs :
        (Done(r) /\ Transcribing(r) /\ st[r].resp.status = 200) =>
            IsStr(st[r].resp.transcription)

\* C11: every 200 response of the conversion route has as Content-Type the
\* MIME table's entry for the lower-cased targetFormat, as Content-Disposition
\* attachment; filename="<name>" with the file name performCloudConversion
\* returned, and as body the bytes the download delivered.
C11_ConvertHeaders ==
    \A r \in Reqs :
        (Done(r) /\ Converting(r) /\ st[r].resp.status = 200) =>
            /\ st[r].resp.contentType =
                   Str(<<EXT_TO_MIMETYPE[ToLowerCase(st[r].body.targetFormat).v[1]]>>)
            /\ st[r].resp.contentDisposition =
                   Str(<<"attachment; filename=\"">> \o st[r].convertedFileName \o <<"\"">>)
            /\ st[r].resp.bytes = Str(st[r].downloaded.bytes)

C11_Witness ==
    \E r \in Reqs :
        /\ Done(r)
        /\ Converting(r)
        /\ st[r].body.targetFormat = Str(<<"PDF">>)
        /\ st[r].resp.status = 200
        /\ st[r].resp.contentType = Str(<<"application/pdf">>)
        /\ st[r].resp.contentDisposition = Str(<<"attachment; filename=\"", "out.pdf", "\"">>)
        /\ st[r].resp.bytes = Str(<<"converted">>)

\* The fields of a response that carry a result
ResultFields ==
    {"transcription", "videoTitle", "originalFileName", "contentType",
     "contentDisposition", "bytes"}

\* C12: in both routes, when a step of the request has failed, the response
\* is a 500 that carries no field other than error and details (no
\* transcription, no title, no converted bytes); a 200 is returned only when
\* no step failed.
C12_NoPartialResults ==
    \A r \in Reqs :
        (Done(r) /\ st[r].failed # << >>) =>
            /\ st[r].resp.status = 500
            /\ \A f \in ResultFields : st[r].resp[f] = Absent

\* C13: in the transcription route, once the session directory has been
\* created, exactly one removal of it is attempted per request on every exit
\* path (200, each 400, and the 500 after any throw, a failure to read the
\* form data included), and none before the outcome is decided.
C13_OneRemoval ==
    \A r \in Reqs :
        (Transcribing(r) /\ st[r].tempSessionDir # NoPath) =>
            Count(st[r], "rm") = IF Done(r) THEN 1 ELSE 0

C13_Witness ==
    \E r \in Reqs :
        /\ Done(r)
        /\ Transcribing(r)
        /\ st[r].body.malformed
        /\ st[r].resp.status = 500
        /\ st[r].calls = <<"mkdtemp", "rm">>
        /\ st[r].tempSessionDir \notin dirs

\* The calls to the remote providers that C14 names
RemoteCalls == {"whisper", "jobs.create", "tasks.upload", "jobs.wait"}

\* The value carries a response (with or without data) or an error field
CarriesPayload(e) == Has(e, "response") \/ Has(e, "error")

\* The payload such a value carries
PayloadOf(e) ==
    IF Has(e, "response")
    THEN IF Has(e.response, "data") THEN e.response.data ELSE e.response
    ELSE e.error

\* The request ended because the remote call op rejected
RemoteCallFailed(r) ==
    /\ Done(r)
    /\ st[r].failed # << >>
    /\ st[r].failed[Len(st[r].failed)] \in RemoteCalls

\* C14: when a call to a remote provider (transcription, job creation, upload,
\* wait) rejects with a value that carries a response or data payload or an
\* error field, the 500 response has that payload as details, not null.
C14_ProviderDetails ==
    \A r \in Reqs :
        (RemoteCallFailed(r) /\ CarriesPayload(st[r].thrown)) =>
            /\ st[r].resp.status = 500
            /\ st[r].resp.details = PayloadOf(st[r].thrown)

\* C15: the catch of the transcription route (part_000) and the catch of the
\* conversion route are the same function: on every caught value the
\* response one of them builds has the details the other one computes, and
\* both take the message from the caught value in the same cases.
C15_SameNormalizer ==
    \A r \in Reqs :
        (Done(r) /\ st[r].caught # Undef /\ st[r].route \in {"t0"} \cup ConvertRoutes) =>
            LET e == st[r].caught IN
            /\ st[r].resp.details =
                   IF st[r].route = "t0" THEN ConvertDetails(e) ELSE TranscribeDetails0(e)
            /\ InstanceOfError(e) =>
                   /\ TranscribeMessage(e) = e.message.v
                   /\ ConvertMessage(e) = e.message.v
            /\ ~InstanceOfError(e) =>
                   /\ TranscribeMessage(e) =
                          <<"An unknown error occurred during transcription processing.">>
                   /\ ConvertMessage(e) =
                          <<"An unknown error occurred during document conversion.">>

\* C16: within one request the steps are ordered: the transcription call is
\* dispatched only after the transcoder has signalled 'end'; for a URL the
\* transcoder is started only after the download stream has signalled 'end';
\* the wait for the conversion job is dispatched only after the upload of the
\* document has resolved.
C16_StepOrder ==
    \A r \in Reqs :
        /\ Called(st[r], "whisper") => Ended(st[r], "ffmpeg")
        /\ (Called(st[r], "ffmpeg") /\ st[r].body.operationType = Str(<<"url">>)) =>
               Ended(st[r], "download")
        /\ (Called(st[r], "ffmpeg") /\ st[r].body.operationType = Str(<<"file">>)) =>
               Ended(st[r], "writeFile")
        /\ Called(st[r], "jobs.wait") => Ended(st[r], "tasks.upload")

C16_Witness ==
    \E r \in Reqs :
        /\ Done(r)
        /\ st[r].body.operationType = Str(<<"url">>)
        /\ st[r].resp.status = 200
        /\ st[r].calls = <<"mkdtemp", "getInfo", "download", "ffmpeg", "access", "whisper", "rm">>
        /\ st[r].ended = <<"mkdtemp", "getInfo", "download", "ffmpeg", "access", "whisper">>

\* The external operations of a request
ExternalOps ==
    {"getInfo", "download", "ffmpeg", "whisper",
     "jobs.create", "tasks.upload", "jobs.wait", "fetch"}

\* C17: within one request each external operation (metadata resolution,
\* stream download, audio extraction, transcription call, job creation,
\* upload, wait, result download) is invoked at most once, and once one of
\* them has failed no external operation is invoked any more.
C17_NoRetry ==
    \A r \in Reqs :
        LET log == st[r].log IN
        /\ \A op \in ExternalOps : Count(st[r], op) <= 1
        /\ \A i, j \in 1 .. Len(log) :
              (i < j /\ log[i][1] = "fail" /\ log[i][2] \in ExternalOps) =>
                  ~(log[j][1] = "call" /\ log[j][2] \in ExternalOps)

C17_Witness ==
    \E r \in Reqs :
        /\ Done(r)
        /\ st[r].log = << <<"call", "mkdtemp">>, <<"end", "mkdtemp">>,
                          <<"call", "writeFile">>, <<"end", "writeFile">>,
                          <<"call", "ffmpeg">>, <<"fail", "ffmpeg">>,
                          <<"call", "rm">> >>
        /\ st[r].resp.status = 500

\* The job the wait of the request resolved to
Waited(r) == Converting(r) /\ Ended(st[r], "jobs.wait") /\ IsObj(st[r].job)

\* C18: a job that the wait returned in a status other than 'finished' never
\* leads to a success: no download is issued for it, and the response is not
\* a 200; converted bytes are returned only for a job whose status is
\* 'finished'.
C18_OnlyFinishedSucceeds ==
    \A r \in Reqs :
        (Waited(r) /\ st[r].job.status # "finished") =>
            /\ ~Called(st[r], "fetch")
            /\ Done(r)
            /\ st[r].resp.status = 500

\* A string that is not empty
NonEmptyStr(x) == IsStr(x) /\ x.v # << >>

\* The message C19 expects for a job in error: the message of the first task
\* in error when it is not empty, else the job's message when it has one,
\* else the generic text of the revision
ExpectedJobMessage(route, job) ==
    LET errs == { i \in 1 .. Len(job.tasks) : job.tasks[i].status = "error" }
        first == CHOOSE i \in errs : \A j \in errs : i <= j
    IN  IF errs # {} /\ NonEmptyStr(job.tasks[first].message)
        THEN job.tasks[first].message.v
        ELSE IF NonEmptyStr(job.message) THEN job.message.v
        ELSE IF route = "c0" THEN <<"Unknown error">>
        ELSE <<"Unknown error from CloudConvert">>

\* C19: when the completed job has status 'error', the failure message is
\* that of the first task in error if it is not empty, else the job's
\* message if present, else a generic text; the request fails with it and no
\* download is issued.
C19_JobFailureMessage ==
    \A r \in Reqs :
        (Waited(r) /\ st[r].job.status = "error") =>
            /\ Done(r)
            /\ st[r].resp.status = 500
            /\ st[r].resp.error =
                   Str(<<"CloudConvert processing failed: ", "CloudConvert job failed: ">>
                       \o ExpectedJobMessage(st[r].route, st[r].job))
            /\ ~Called(st[r], "fetch")

C19_Witness ==
    \E r \in Reqs :
        /\ Waited(r)
        /\ st[r].job.status = "error"
        /\ Get(FindByStatus(st[r].job.tasks, "error"), "message") = Str(<< >>)
        /\ st[r].job.message = JobFailed
        /\ st[r].resp.error =
               Str(<<"CloudConvert processing failed: ", "CloudConvert job failed: ", "Job failed">>)

\* The job has a task named 'export-file' whose status is 'finished' and
\* whose result lists at least one file
ExportReady(job) ==
    \E i \in 1 .. Len(job.tasks) :
        /\ job.tasks[i].name = "export-file"
        /\ \A j \in 1 .. i - 1 : job.tasks[j].name # "export-file"
        /\ job.tasks[i].status = "finished"
        /\ IsObj(job.tasks[i].result)
        /\ Len(job.tasks[i].result.files) > 0

\* C20: when the completed job is not in error, the request fails without
\* issuing a download unless the task named 'export-file' exists, is
\* 'finished' and has a result with a non-empty list of files.
C20_ExportChecked ==
    \A r \in Reqs :
        (Waited(r) /\ st[r].job.status # "error" /\ ~ExportReady(st[r].job)) =>
            /\ ~Called(st[r], "fetch")
            /\ Done(r)
            /\ st[r].resp.status = 500
            /\ st[r].resp.error =
                   Str(<<"CloudConvert processing failed: ",
                         "CloudConvert export task failed or did not produce a file.">>)

C20_Witness ==
    \E r \in Reqs :
        /\ Waited(r)
        /\ st[r].job.status = "finished"
        /\ FindByName(st[r].job.tasks, "export-file") = ExportTask("finished", Result(<< >>))
        /\ Done(r)
        /\ st[r].resp.status = 500
        /\ st[r].failed = <<"exportCheck">>

\* The first file of the result of the job's export task
FirstResultFile(job) == FindByName(job.tasks, "export-file").result.files[1]

\* The job passed the checks on its status and on its export task
Exported(r) == Waited(r) /\ st[r].job.status # "error" /\ ExportReady(st[r].job)

\* The last segment of the uploaded document's name, without its extension
Stem(name) ==
    LET base == name[Len(name)]
    IN  IF Len(base) > 1 THEN SubSeq(base, 1, Len(base) - 1) ELSE base

\* C21: the output file name of a conversion is the declared file name of the
\* first result file when that is not empty, and otherwise the stem of the
\* original file name, '.', and the targetFormat; when the first result file
\* has no URL the request fails and no download is issued.
C21_OutputFileName ==
    \A r \in Reqs :
        Exported(r) =>
            LET resultFile == FirstResultFile(st[r].job)
                expected ==
                    IF NonEmptyStr(resultFile.filename) THEN resultFile.filename.v
                    ELSE Stem(st[r].body.document.name) \o <<".">>
                         \o st[r].body.targetFormat.v
            IN  IF Truthy(resultFile.url)
                THEN /\ Called(st[r], "fetch")
                     /\ st[r].convertedFileName = expected
                     /\ st[r].resp.status = 200 =>
                            st[r].resp.contentDisposition =
                                Str(<<"attachment; filename=\"">> \o expected \o <<"\"">>)
                ELSE /\ ~Called(st[r], "fetch")
                     /\ Done(r)
                     /\ st[r].resp.status = 500
                     /\ st[r].resp.error =
                            Str(<<"CloudConvert processing failed: ",
                                  "CloudConvert export task result did not contain a URL.">>)

C21_Witness ==
    \E r \in Reqs :
        /\ Exported(r)
        /\ FirstResultFile(st[r].job) = ResultFile(Absent, OutUrl)
        /\ st[r].body.targetFormat = Str(<<"PDF">>)
        /\ st[r].body.document.name = ClipName
        /\ st[r].resp.status = 200
        /\ st[r].resp.contentDisposition =
               Str(<<"attachment; filename=\"", "clip", ".", "PDF", "\"">>)

\* C22: a conversion answers 200 only if the download of the result URL had
\* a success status and a non-empty body; a download of zero bytes, or one
\* with a non-success status, ends in a 500 response.
C22_DownloadChecked ==
    \A r \in Reqs :
        (Converting(r) /\ Done(r) /\ Ended(st[r], "fetch")) =>
            IF st[r].downloaded.ok /\ st[r].downloaded.bytes # << >>
            THEN st[r].resp.status = 200
            ELSE st[r].resp.status = 500

\* The tasks of a job that carry the given name
TasksNamed(job, name) ==
    { i \in 1..Len(job.tasks) : job.tasks[i].name = name }

\* A created job the conversion cannot go on with: no job, no id, no task
\* named 'import-file', or an import task without an id
UnusableJob(job) ==
    \/ ~IsObj(job)
    \/ ~NonEmptyStr(job.id)
    \/ TasksNamed(job, "import-file") = {}
    \/ \E i \in TasksNamed(job, "import-file") :
            /\ \A j \in TasksNamed(job, "import-file") : i <= j
            /\ ~NonEmptyStr(job.tasks[i].id)

\* C23: when job creation yields no job, a job without an id, a job without
\* an 'import-file' task or with an import task that has no id, the
\* conversion fails before a temporary directory is created and before any
\* upload, wait or download is issued.
C23_JobCheckedFirst ==
    \A r \in Reqs :
        (Converting(r) /\ Ended(st[r], "jobs.create") /\ UnusableJob(st[r].job)) =>
            /\ Done(r)
            /\ st[r].resp.status = 500
            /\ st[r].created = {}
            /\ st[r].tempDir = NoPath
            /\ \A op \in {"mkdtemp", "writeFile", "tasks.upload", "jobs.wait", "fetch"} :
                    ~Called(st[r], op)

C23_Witness ==
    \E r \in Reqs :
        /\ Converting(r) /\ Ended(st[r], "jobs.create")
        /\ IsObj(st[r].job) /\ NonEmptyStr(st[r].job.id)
        /\ TasksNamed(st[r].job, "import-file") # {}
        /\ UnusableJob(st[r].job)
        /\ st[r].resp.status = 500
        /\ st[r].resp.error =
               Str(<<"CloudConvert processing failed: ",
                     "CloudConvert upload task not found in job or task has no ID.">>)

\* An 'error' event of the download stream or of the file stream was emitted
StreamErrored(r) ==
    \E i \in 1..Len(st[r].log) :
        st[r].log[i] \in {<<"fail", "download">>, <<"fail", "fileWriteStream">>}

\* C24: when the download stream or the file stream of a Remote Fetch emits
\* an error, in whatever order with the 'end' event, the acquisition fails:
\* the transcription provider is never called for the request and the
\* request ends in an error response.
C24_StreamErrorAborts ==
    \A r \in Reqs :
        (Transcribing(r) /\ StreamErrored(r)) =>
            /\ ~Called(st[r], "whisper")
            /\ Done(r) => st[r].resp.status = 500

\* The directory made for the request
Workspace(r) == IF Converting(r) THEN st[r].tempDir ELSE st[r].tempSessionDir

\* The path to which the uploaded bytes of the request go
UploadPath(r) == IF Converting(r) THEN st[r].tempFilePath ELSE st[r].videoPath

\* The request is an upload whose bytes have been given to writeFile
UploadWriteAsked(r) ==
    /\ Called(st[r], "writeFile")
    /\ Converting(r) \/ (Transcribing(r) /\ st[r].body.operationType = Str(<<"file">>))

\* C25: whatever the name of the uploaded file, names with '..' included, the
\* path at which the upload is written lies inside the directory made for
\* the request, and no upload is written outside it.
C25_UploadInsideWorkspace ==
    \A r \in Reqs :
        UploadWriteAsked(r) =>
            /\ Inside(UploadPath(r), Workspace(r))
            /\ \A p \in st[r].written : Inside(p, Workspace(r))

\* The caught value exposes a message that is a string
ExposesMessage(e) == IsObj(e) /\ Has(e, "message") /\ IsStr(e.message)

\* The fixed message of the route for a value without a message
UnknownErrorMessage(route) ==
    IF route \in TranscribeRoutes
    THEN <<"An unknown error occurred during transcription processing.">>
    ELSE <<"An unknown error occurred during document conversion.">>

\* C26: the message of a normalized error is the message of the caught value
\* whenever that value exposes a message string, Error instance or not, and
\* the fixed unknown-error string otherwise.
C26_NormalizedMessage ==
    \A r \in Reqs :
        (Done(r) /\ st[r].route \in AllRoutes) =>
            LET e == st[r].caught IN
            /\ st[r].resp.status = 500
            /\ st[r].resp.error =
                   IF ExposesMessage(e) THEN Str(e.message.v)
                   ELSE Str(UnknownErrorMessage(st[r].route))

\* The details the probing order response, error, raw value gives for a
\* caught object
DetailsInOrder(e) ==
    IF Has(e, "response")
    THEN IF IsObj(e.response) /\ Has(e.response, "data")
         THEN e.response.data ELSE e.response
    ELSE IF Has(e, "error") THEN e.error
    ELSE IF ~(InstanceOfError(e) /\ ExposesMessage(e)) THEN e
    ELSE Null

\* C27: the details of a normalized error are chosen by the first match of:
\* the data of the caught value's response (or the response itself) when it
\* has a response; its error payload when it has one; the caught value itself
\* when it is not a message-bearing Error; null otherwise.
C27_NormalizedDetails ==
    \A r \in Reqs :
        (Done(r) /\ st[r].route \in {"t0"} \cup ConvertRoutes /\ IsObj(st[r].caught)) =>
            st[r].resp.details = DetailsInOrder(st[r].caught)

\* The operation op of the request has failed
FailedOp(r, op) == \E i \in 1..Len(st[r].failed) : st[r].failed[i] = op

\* The position of the entry in the log of the request, 0 when it is not there
LogIndex(r, entry) ==
    IF \E i \in 1..Len(st[r].log) : st[r].log[i] = entry
    THEN CHOOSE i \in 1..Len(st[r].log) :
            /\ st[r].log[i] = entry
            /\ \A j \in 1..(i - 1) : st[r].log[j] # entry
    ELSE 0

\* C28: the audio file is checked for existence and readability before the
\* speech-to-text provider is called; when the check fails the provider is
\* never called for the request and the request ends in a 500 response.
C28_AccessBeforeProvider ==
    \A r \in Reqs :
        Transcribing(r) =>
            /\ Called(st[r], "whisper") =>
                   /\ LogIndex(r, <<"end", "access">>) > 0
                   /\ LogIndex(r, <<"end", "access">>) < LogIndex(r, <<"call", "whisper">>)
            /\ FailedOp(r, "access") =>
                   /\ ~Called(st[r], "whisper")
                   /\ st[r].pc \in {"finally", "done"}
                   /\ Outcome(r).status = 500

C28_Witness ==
    \E r \in Reqs :
        /\ Transcribing(r) /\ Done(r)
        /\ FailedOp(r, "access")
        /\ Ended(st[r], "ffmpeg")
        /\ ~Called(st[r], "whisper")
        /\ st[r].resp.status = 500

\* The provider has answered the request with a response object
Answered(r) ==
    /\ Transcribing(r)
    /\ Ended(st[r], "whisper")
    /\ IsObj(st[r].transcription)

\* The messages with which the client says it found no text in the response
UnrecognizedShape ==
    { "Could not extract text from Whisper API response: 'text' field missing, not a string, or structure unexpected.",
      "Could not extract text from Whisper API response." }

\* C29: for every shape of the provider's response, the text is the text
\* field when that is a string, otherwise the string text nested under data;
\* when neither is a string the client fails with an error saying that it
\* could not find the text in the response.  A response with a non-string
\* text and a string data.text yields data.text.
C29_TextNormalization ==
    \A r \in Reqs :
        Answered(r) =>
            LET text == Get(st[r].transcription, "text")
                data == Get(st[r].transcription, "data")
                nested == IF IsObj(data) THEN Get(data, "text") ELSE Undef
            IN  /\ st[r].pc \in {"finally", "done"}
                /\ IF IsStr(text)
                   THEN Outcome(r).status = 200 /\ Outcome(r).transcription = text
                   ELSE IF IsStr(nested)
                   THEN Outcome(r).status = 200 /\ Outcome(r).transcription = nested
                   ELSE /\ Outcome(r).status = 500
                        /\ Len(Outcome(r).error.v) = 2
                        /\ Outcome(r).error.v[1] = "Whisper API transcription failed: "
                        /\ Outcome(r).error.v[2] \in UnrecognizedShape

C31_QuiescentAtRemoval ==
    \A r \in Reqs :
        (Transcribing(r) /\ Called(st[r], "rm")) =>
            /\ st[r].pending.status \in {200, 400, 500}
            /\ ~st[r].writing
            /\ \A op \in {"writeFile", "ffmpeg"} :
                    Count(st[r], op) =
                        Cardinality({ i \in 1..Len(st[r].log) :
                                        st[r].log[i] \in {<<"end", op>>, <<"fail", op>>} })
            /\ Called(st[r], "download") =>
                    Ended(st[r], "download") \/ StreamErrored(r)

\* The audio files the request has written
AudioWritten(r) ==
    { p \in st[r].written : p \in DOMAIN files /\ files[p].kind = "audio" }

\* At most one extraction per request; a finished extraction has left one
\* audio file, in the session directory of the request
OneExtraction(r) ==
    /\ Count(st[r], "ffmpeg") <= 1
    /\ (Ended(st[r], "ffmpeg") /\ ~Called(st[r], "rm")) =>
           /\ AudioWritten(r) = {st[r].audioOutputPath}
           /\ Inside(st[r].audioOutputPath, st[r].tempSessionDir)
    /\ ~Ended(st[r], "ffmpeg") => AudioWritten(r) = {}

\* A failed transcoder ends the request with a 500 that carries the
\* transcoder's diagnostic, and the provider is never called
ExtractionFailureReported(r) ==
    FailedOp(r, "ffmpeg") =>
        /\ st[r].pc \in {"finally", "done"}
        /\ Outcome(r).status = 500
        /\ \E m \in FfmpegDiagnostics :
               Outcome(r).error = Str(<<"Failed to extract audio: ">> \o m)
        /\ ~Called(st[r], "access")
        /\ ~Called(st[r], "whisper")

\* C32: per request the audio extraction is invoked at most once and leaves
\* exactly one audio file per acquired media file, in the same session
\* directory as its input; a failure of the transcoder ends the request with
\* a 500 whose error carries the transcoder's diagnostic, and the
\* transcription is never attempted.
C32_OneAudioPerMedia ==
    \A r \in Reqs :
        Transcribing(r) =>
            /\ OneExtraction(r)
            /\ ExtractionFailureReported(r)
            /\ Called(st[r], "ffmpeg") =>
                   /\ Inside(st[r].videoPath, st[r].tempSessionDir)
                   /\ Dirname(st[r].audioOutputPath) = Dirname(st[r].videoPath)

\* C33: when CLOUDCONVERT_API_KEY is not set, every request to the conversion
\* route is answered 500 before the form data is read: no 400 is produced,
\* no temporary directory is created and no provider operation is invoked.
C33_ConvertKeyFirst ==
    \A r \in Reqs :
        (Converting(r) /\ ~env.CLOUDCONVERT_API_KEY) =>
            /\ Done(r)
            /\ st[r].resp.status = 500
            /\ st[r].resp.error =
                   Str(<<"Server configuration error for conversion service.">>)
            /\ st[r].caught = Undef
            /\ st[r].log = << >>
            /\ st[r].created = {}
            /\ st[r].tempDir = NoPath
            /\ ~CalledAny(r, ConvertProviderOps)

C33_Witness ==
    \E r \in Reqs :
        /\ Converting(r) /\ Done(r)
        /\ ~env.CLOUDCONVERT_API_KEY
        /\ ~st[r].body.malformed
        /\ st[r].body.targetFormat = Str(<<"exe">>)
        /\ st[r].resp.status = 500

OtherRevision(route) == IF route = "t0" THEN "t1" ELSE "t0"

\* The response the revision gives once the provider has answered with the
\* response object, or has rejected with the thrown value
AnswerOf(route, s, answered, transcription, e) ==
    IF answered
    THEN LET res == WhisperText(route, transcription)
         IN  IF res.ok THEN TranscribeOk([s EXCEPT !.route = route], res.value)
             ELSE TranscribeCatch(route, WhisperCatch(route, res.error))
    ELSE TranscribeCatch(route, WhisperCatch(route, e))

\* The provider call of the request has settled, one way or the other
ProviderSettled(r) ==
    /\ Transcribing(r)
    /\ st[r].pc \in {"finally", "done"}
    /\ Ended(st[r], "whisper") \/ FailedOp(r, "whisper")

\* C35: the two revisions of the transcription route return, for the same
\* request and the same outcomes of the collaborators (every shape of the
\* provider's response included), the same status, the same transcription on
\* 200 and the same error message on 400 and 500.
C35_RevisionsEquivalent ==
    \A r \in Reqs :
        ProviderSettled(r) =>
            LET s == st[r]
                mine == AnswerOf(s.route, s, Ended(s, "whisper"), s.transcription, s.thrown)
                other == AnswerOf(OtherRevision(s.route), s, Ended(s, "whisper"),
                                  s.transcription, s.thrown)
            IN  /\ Outcome(r).status = mine.status
                /\ Outcome(r).transcription = mine.transcription
                /\ Outcome(r).error = mine.error
                /\ other.status = Outcome(r).status
                /\ other.transcription = Outcome(r).transcription
                /\ other.error = Outcome(r).error

=============================================================================
